---- MODULE Spec2Model ----
(***************************************************************************)
(* Model of the two week1 programs:                                        *)
(*   week1/DataTypes/src/main.rs  (main, longest_name)                     *)
(*   week1/variables/src/main.rs  (main)                                   *)
(* A Rust String is a heap buffer of UTF-8 bytes; a &str is a fat pointer  *)
(* (buffer, offset, byte length).  The ghost field ver of a buffer counts  *)
(* its mutations and a view remembers the ver it was borrowed at.          *)
(***************************************************************************)
EXTENDS Integers, Sequences, FiniteSets, TLC

VARIABLES pcD, heap, frameD, printedD, pcV, frameV, printedV, call

vars == <<pcD, heap, frameD, printedD, pcV, frameV, printedV, call>>
varsD == <<pcD, heap, frameD, printedD>>
varsV == <<pcV, frameV, printedV>>

\* ---------------------------------------------------------------- bounds
\* longest texts (in characters) the longest_name driver draws
MaxChars == 2
\* longest sequences the get driver draws
MaxN == 3
\* largest small index the get driver draws
MaxIdx == 4
\* longest texts (in characters) the paired longest_name driver draws
MaxPairChars == 1

\* ------------------------------------------------------- text primitives
\* UTF-8 encoding of one code point (the representation of str / String)
Utf8(cp) ==
  IF cp < 128 THEN <<cp>>
  ELSE IF cp < 2048 THEN <<192 + (cp \div 64), 128 + (cp % 64)>>
  ELSE IF cp < 65536
    THEN <<224 + (cp \div 4096), 128 + ((cp \div 64) % 64), 128 + (cp % 64)>>
    ELSE <<240 + (cp \div 262144), 128 + ((cp \div 4096) % 64),
           128 + ((cp \div 64) % 64), 128 + (cp % 64)>>

RECURSIVE Encode(_)
\* a string literal (sequence of code points) as its UTF-8 bytes
Encode(cps) ==
  IF cps = <<>> THEN <<>> ELSE Utf8(Head(cps)) \o Encode(Tail(cps))

\* a UTF-8 continuation byte 10xxxxxx
IsContinuation(b) == b >= 128 /\ b < 192

\* str::chars().count(): the bytes that start a character
CharCount(bytes) ==
  Cardinality({i \in DOMAIN bytes : ~IsContinuation(bytes[i])})

\* str::is_char_boundary
IsCharBoundary(bytes, i) ==
  \/ i = 0
  \/ i = Len(bytes)
  \/ i < Len(bytes) /\ ~IsContinuation(bytes[i + 1])

\* the literals of the programs, as code points
LitHello == <<72, 101, 108, 108, 111, 32>>                        \* "Hello "
LitWorld == <<119, 111, 114, 108, 100>>                           \* "world"
LitBang == <<33>>                                                 \* "!"
LitHelloWorld == <<72, 101, 108, 108, 111, 32,
                   119, 111, 114, 108, 100, 33>>                  \* "Hello world!"
LitLlo == <<108, 108, 111>>                                       \* "llo"
LitApple == <<97, 112, 112, 108, 101>>                            \* "apple"
LitBanana == <<98, 97, 110, 97, 110, 97>>                         \* "banana"
LitCherry == <<99, 104, 101, 114, 114, 121>>                      \* "cherry"
LitDate == <<100, 97, 116, 101>>                                  \* "date"
LitElderberry == <<101, 108, 100, 101, 114, 98, 101, 114, 114, 121>> \* "elderberry"
LitAnil == <<97, 110, 105, 108>>                                  \* "anil"
LitAnilc == <<97, 110, 105, 108, 99>>                             \* "anilc"
LitGarima == <<103, 97, 114, 105, 109, 97>>                       \* "garima"
LitBlue == <<98, 108, 117, 101>>                                  \* "blue"

\* ------------------------------------------------------------ references
\* &str: a fat pointer into a buffer; ver is the buffer's ver at the borrow
View(b, o, n, v) == [buf |-> b, off |-> o, len |-> n, ver |-> v]
NoView == View("none", 0, 0, 0)

\* Option<T>
Some(v) == [some |-> TRUE, val |-> <<v>>]
None == [some |-> FALSE, val |-> <<>>]

\* the bytes a view denotes in the current heap
Deref(v) == SubSeq(heap[v.buf].bytes, v.off + 1, v.off + v.len)

\* a view may be read: its buffer is live, unmutated since the borrow, and
\* the view lies inside it
Valid(v) ==
  /\ v.buf \in DOMAIN heap
  /\ heap[v.buf].state = "live"
  /\ heap[v.buf].ver = v.ver
  /\ v.off + v.len <= Len(heap[v.buf].bytes)

\* --------------------------------------------------------- longest_name
\* a length that counts characters instead of bytes (not the code)
StrLenChars(s) == CharCount(Deref(s))

\* str::len of a view: its byte length
StrLen(s) == s.len

\* a selector that resolves ties to the first argument (not the code)
longest_name_ge(first, second) ==
  IF StrLen(first) >= StrLen(second) THEN first ELSE second

\* a selector that returns the shorter text (not the code)
longest_name_lt(first, second) ==
  IF StrLen(first) < StrLen(second) THEN first ELSE second

\* a selector that returns a re-sliced view of the winner (not the code)
longest_name_resliced(first, second) ==
  IF StrLen(first) > StrLen(second)
  THEN [first EXCEPT !.off = 1, !.len = first.len - 1]
  ELSE second

\* a selector that lets the first byte decide before the lengths (not the
\* code)
longest_name_lex(first, second) ==
  IF /\ StrLen(first) > 0 /\ StrLen(second) > 0
     /\ Deref(first)[1] > Deref(second)[1]
  THEN first
  ELSE IF StrLen(first) > StrLen(second) THEN first ELSE second

\* fn longest_name<'a>(first: &'a str, second: &'a str) -> &'a str
longest_name(first, second) ==
  IF StrLen(first) > StrLen(second) THEN first ELSE second

\* ------------------------------------------------------------ slice::get
\* an accessor that is absent one element too early (not the code)
get_short(s, index) ==
  IF index + 1 < Len(s) THEN Some(s[index + 1]) ELSE None

\* <[T]>::get(index: usize) -> Option<&T>, indices counted from 0
get(s, index) ==
  IF index < Len(s) THEN Some(s[index + 1]) ELSE None

\* ------------------------------------------------------------ match
\* enum Message { Quit, Move {x: i32, y: i32} }
Quit == [tag |-> "Quit"]
Move(x, y) == [tag |-> "Move", x |-> x, y |-> y]

\* the arms of match message / match quite_message, in source order
MessageArms == <<"Quit", "Move">>

\* what the arm i prints: the handler and the values its pattern binds
ArmBody(i, message) ==
  IF i = 1 THEN [handler |-> "Quit", args |-> <<>>]
  ELSE [handler |-> "Move", args |-> <<message.x, message.y>>]

\* a match that runs every arm up to the matching one (not the code)
MatchMessageFallThrough(message) ==
  LET hit == {i \in DOMAIN MessageArms : MessageArms[i] = message.tag}
  IN [i \in 1..(CHOOSE i \in hit : \A j \in hit : i <= j) |->
        ArmBody(i, message)]

\* match message { Quit => ..., Move {x, y} => ... }: the handlers run, in
\* order; the first arm whose pattern matches and no other
MatchMessage(message) ==
  LET hit == {i \in DOMAIN MessageArms : MessageArms[i] = message.tag}
  IN IF hit = {} THEN <<>>
     ELSE <<ArmBody(CHOOSE i \in hit : \A j \in hit : i <= j, message)>>

\* match number { 1 => .., 2 | 3 => .., _ => .. }: the arm taken
MatchNumber(number) ==
  IF number = 1 THEN <<"1st matched">>
  ELSE IF number = 2 \/ number = 3 THEN <<"either 2 or 3">>
  ELSE <<"something else">>

\* ------------------------------------------------------------ the heap
Buf(st, bytes, v) == [state |-> st, bytes |-> bytes, ver |-> v]

\* the elements of fruits, each String owning one buffer
FruitBufs == <<"fruits[0]", "fruits[1]", "fruits[2]", "fruits[3]", "fruits[4]">>
FruitLits == <<LitApple, LitBanana, LitCherry, LitDate, LitElderberry>>

\* the string literals passed by reference live in static memory
StaticBufs == {"lit_anil", "lit_garima"}

\* the buffers owned by locals of DataTypes main
OwnedBufs == {"owned_string", "_first_name", "_second_name", "first_name",
              "second_name"} \cup {FruitBufs[i] : i \in DOMAIN FruitBufs}

\* the two buffers a caller of longest_name owns
ArgBufs == {"first", "second", "first2", "second2"}

BufIds == StaticBufs \cup OwnedBufs \cup ArgBufs

InitHeap ==
  [b \in BufIds |->
     IF b = "lit_anil" THEN Buf("live", Encode(LitAnil), 0)
     ELSE IF b = "lit_garima" THEN Buf("live", Encode(LitGarima), 0)
     ELSE Buf("unalloc", <<>>, 0)]

\* a view of the whole of buffer b, borrowed now from heap h
Whole(h, b) == View(b, 0, Len(h[b].bytes), h[b].ver)

\* ------------------------------------------- week1/DataTypes main
I32Max == 2147483647
\* u32::max_value() = 2^32 - 1, as its two 16-bit halves (high, low)
U32Max == <<65535, 65535>>

Printed(line, args) == [line |-> line, args |-> args]

\* what reading a view yields: its bytes, or, for a dangling or stale
\* view, whatever the freed or changed memory holds
ReadView(v) ==
  IF Valid(v) THEN {Deref(v)}
  ELSE {<<>>, <<0>>} \cup
       (IF v.buf \in DOMAIN heap /\ v.off + v.len <= Len(heap[v.buf].bytes)
        THEN {Deref(v)} ELSE {})

\* &s[begin..end] on a str: the view, or None where the index panics
SliceStr(b, begin, end) ==
  LET bytes == heap[b].bytes
  IN IF /\ begin <= end
        /\ end <= Len(bytes)
        /\ IsCharBoundary(bytes, begin)
        /\ IsCharBoundary(bytes, end)
     THEN Some(View(b, begin, end - begin, heap[b].ver))
     ELSE None

\* an append that puts the new text in front (not the code)
Prepend_(h, b, bytes) ==
  [h EXCEPT ![b] = Buf("live", bytes \o h[b].bytes, h[b].ver + 1)]

\* String::push_str / += on the String owning buffer b
Append_(h, b, bytes) ==
  [h EXCEPT ![b] = Buf("live", h[b].bytes \o bytes, h[b].ver + 1)]

\* String::from(lit) bound to the local owning buffer b
StringFrom(h, b, lit) == [h EXCEPT ![b] = Buf("live", Encode(lit), 0)]

\* the locals that own a buffer and are declared inside the block of
\* lines 94-98, with second_name declared inside it (not the code; the
\* declaration the comment at line 96 warns about)
BlockLocalsInner == {"second_name"}

\* the locals that own a buffer and are declared inside the block of
\* lines 94-98: none
BlockLocals == {}

\* the owners among bs go out of scope
Drop(h, bs) ==
  [b \in DOMAIN h |->
     IF b \in bs /\ h[b].state = "live"
     THEN Buf("dropped", h[b].bytes, h[b].ver + 1) ELSE h[b]]

\* an array one element short (not the code)
ArrayRepeatShort(v, n) == [i \in 1..(n - 1) |-> v]

\* the array expression [v; n]
ArrayRepeat(v, n) == [i \in 1..n |-> v]

FrameD0 ==
  [max_value_i32 |-> 0, max_value_u32 |-> 0, string_slice |-> NoView,
   _array_var |-> <<>>, _initialize_array |-> <<>>, fruits |-> <<>>,
   _first |-> NoView, result |-> NoView, result2 |-> NoView]

\* one statement of DataTypes main: from label, to label, new heap, new
\* frame, new output
StepD(from, to, h, f, p) ==
  /\ pcD = from
  /\ pcD' = to
  /\ heap' = h
  /\ frameD' = f
  /\ printedD' = p
  /\ UNCHANGED <<varsV, call>>

\* lines 4-9
MaxValues ==
  StepD("l4", "l16", heap,
        [frameD EXCEPT !.max_value_i32 = I32Max, !.max_value_u32 = U32Max],
        printedD \o <<Printed(8, <<I32Max>>), Printed(9, <<U32Max>>)>>)

\* line 16
OwnedStringFrom ==
  StepD("l16", "l17", StringFrom(heap, "owned_string", LitHello), frameD,
        printedD)

\* line 17
PushStr ==
  StepD("l17", "l18", Append_(heap, "owned_string", Encode(LitWorld)),
        frameD, printedD)

\* line 18
AddAssign ==
  StepD("l18", "l20", Append_(heap, "owned_string", Encode(LitBang)),
        frameD, printedD)

\* line 20
PrintOwned ==
  StepD("l20", "l22", heap, frameD,
        Append(printedD, Printed(20, <<heap["owned_string"].bytes>>)))

\* line 22: assert_eq! panics when the two differ
AssertEq ==
  StepD("l22",
        IF heap["owned_string"].bytes = Encode(LitHelloWorld)
        THEN "l49" ELSE "abort",
        heap, frameD, printedD)

\* line 49
SliceOwned ==
  LET r == SliceStr("owned_string", 2, 5)
  IN StepD("l49", IF r.some THEN "l50" ELSE "abort", heap,
           IF r.some THEN [frameD EXCEPT !.string_slice = r.val[1]]
           ELSE frameD,
           printedD)

\* line 50
PrintSlice ==
  \E bytes \in ReadView(frameD.string_slice) :
    StepD("l50", "l53", heap, frameD,
          Append(printedD, Printed(50, <<bytes>>)))

\* lines 53-55
Arrays ==
  StepD("l53", "l57", heap,
        [frameD EXCEPT !._array_var = <<1, 2>>,
                       !._initialize_array = ArrayRepeat(0, 10)],
        printedD)

\* line 57: indexing panics out of bounds
IndexArray ==
  IF 9 < Len(frameD._initialize_array)
  THEN StepD("l57", "l60", heap, frameD,
             Append(printedD,
                    Printed(57, <<frameD._initialize_array[9 + 1]>>)))
  ELSE StepD("l57", "abort", heap, frameD, printedD)

\* line 60
NewFruits ==
  StepD("l60", "l63",
        [b \in DOMAIN heap |->
           IF \E i \in DOMAIN FruitBufs : FruitBufs[i] = b
           THEN Buf("live",
                    Encode(FruitLits[CHOOSE i \in DOMAIN FruitBufs :
                                       FruitBufs[i] = b]), 0)
           ELSE heap[b]],
        [frameD EXCEPT !.fruits = FruitBufs], printedD)

\* line 63: indexing panics out of bounds
IndexFruits ==
  IF 0 < Len(frameD.fruits)
  THEN StepD("l63", "l65", heap,
             [frameD EXCEPT !._first = Whole(heap, frameD.fruits[0 + 1])],
             printedD)
  ELSE StepD("l63", "abort", heap, frameD, printedD)

\* line 65
PrintFirst ==
  \E bytes \in ReadView(frameD._first) :
    StepD("l65", "l68", heap, frameD,
          Append(printedD, Printed(65, <<bytes>>)))

\* lines 68-71 (index 1) and 74-77 (index 20): match fruits.get(index)
MatchGet(from, to, line, index) ==
  LET r == get(frameD.fruits, index)
  IN IF r.some
     THEN \E bytes \in ReadView(Whole(heap, r.val[1])) :
            StepD(from, to, heap, frameD,
                  Append(printedD, Printed(line, <<"Some", bytes>>)))
     ELSE StepD(from, to, heap, frameD,
                Append(printedD, Printed(line + 1, <<"None">>)))

MatchGet1 == MatchGet("l68", "l74", 69, 1)

MatchGet20 == MatchGet("l74", "l80", 75, 20)

\* line 80
PrintFruits ==
  StepD("l80", "l82", heap, frameD,
        Append(printedD,
               Printed(80, [i \in DOMAIN frameD.fruits |->
                              heap[frameD.fruits[i]].bytes])))

\* lines 82-83
UnusedNames ==
  StepD("l82", "l86",
        StringFrom(StringFrom(heap, "_first_name", LitAnil),
                   "_second_name", LitAnilc),
        frameD, printedD)

\* line 86
CallLiterals ==
  StepD("l86", "l88", heap,
        [frameD EXCEPT !.result = longest_name(Whole(heap, "lit_anil"),
                                               Whole(heap, "lit_garima"))],
        printedD)

\* line 88
PrintResult ==
  \E bytes \in ReadView(frameD.result) :
    StepD("l88", "l91", heap, frameD,
          Append(printedD, Printed(88, <<bytes>>)))

\* lines 91-93
DeclareNames ==
  StepD("l91", "l97",
        StringFrom(StringFrom(heap, "first_name", LitAnil),
                   "second_name", LitAnilc),
        frameD, printedD)

\* line 97
CallOwned ==
  StepD("l97", "l98", heap,
        [frameD EXCEPT !.result2 = longest_name(Whole(heap, "first_name"),
                                                Whole(heap, "second_name"))],
        printedD)

\* line 98: the inner block ends and its locals are dropped
BlockEnd ==
  StepD("l98", "l100", Drop(heap, BlockLocals), frameD, printedD)

\* line 100
PrintResult2 ==
  \E bytes \in ReadView(frameD.result2) :
    StepD("l100", "l103", heap, frameD,
          Append(printedD, Printed(100, <<bytes>>)))

\* line 103: main returns and every local is dropped
ReturnD ==
  StepD("l103", "done", Drop(heap, OwnedBufs), frameD, printedD)

NextD ==
  \/ MaxValues \/ OwnedStringFrom \/ PushStr \/ AddAssign \/ PrintOwned
  \/ AssertEq \/ SliceOwned \/ PrintSlice \/ Arrays \/ IndexArray
  \/ NewFruits \/ IndexFruits \/ PrintFirst \/ MatchGet1 \/ MatchGet20
  \/ PrintFruits \/ UnusedNames \/ CallLiterals \/ PrintResult
  \/ DeclareNames \/ CallOwned \/ BlockEnd \/ PrintResult2 \/ ReturnD

\* ------------------------------------------- week1/variables main
NoMessage == [tag |-> "uninit"]

FrameV0 ==
  [_y |-> 0, a |-> 0, b |-> 0, number |-> 0, message |-> NoMessage,
   quite_message |-> NoMessage, favorite_color |-> None,
   some_value |-> None]

\* one statement of variables main
StepV(from, to, f, p) ==
  /\ pcV = from
  /\ pcV' = to
  /\ frameV' = f
  /\ printedV' = p
  /\ UNCHANGED <<varsD, call>>

\* line 2
PrintHello == StepV("l2", "l5", frameV, Append(printedV, Printed(2, <<>>)))

\* lines 5-6; 98 is 'b'
Destructure ==
  StepV("l5", "l8", [frameV EXCEPT !._y = 2, !.a = 2, !.b = 98], printedV)

\* line 8
PrintAB ==
  StepV("l8", "l12", frameV,
        Append(printedV, Printed(8, <<frameV.a, Utf8(frameV.b)>>)))

\* line 12
LetNumber == StepV("l12", "l14", [frameV EXCEPT !.number = 3], printedV)

\* lines 14-18
MatchNumberStep ==
  LET arms == MatchNumber(frameV.number)
  IN StepV("l14", IF Len(arms) = 1 THEN "l29" ELSE "abort", frameV,
           printedV \o [i \in DOMAIN arms |-> Printed(14, <<arms[i]>>)])

\* the handlers a match on m prints, as output lines
Handlers(m) ==
  LET hs == MatchMessage(m)
  IN [i \in DOMAIN hs |-> Printed(31, <<hs[i].handler>> \o hs[i].args)]

\* line 29
LetMessage ==
  StepV("l29", "l31", [frameV EXCEPT !.message = Move(2, 3)], printedV)

\* lines 31-34
MatchMessageStep ==
  StepV("l31", IF Len(MatchMessage(frameV.message)) = 1 THEN "l36"
               ELSE "abort",
        frameV, printedV \o Handlers(frameV.message))

\* line 36
LetQuit ==
  StepV("l36", "l38", [frameV EXCEPT !.quite_message = Quit], printedV)

\* lines 38-41
MatchQuitStep ==
  StepV("l38", IF Len(MatchMessage(frameV.quite_message)) = 1 THEN "l44"
               ELSE "abort",
        frameV, printedV \o Handlers(frameV.quite_message))

\* line 44
LetColor ==
  StepV("l44", "l46",
        [frameV EXCEPT !.favorite_color = Some(Encode(LitBlue))], printedV)

\* lines 46-48: if let Some("blue") = favorite_color
IfLetBlue ==
  StepV("l46", "l51", frameV,
        IF frameV.favorite_color = Some(Encode(LitBlue))
        THEN Append(printedV, Printed(47, <<>>)) ELSE printedV)

\* line 51
LetSome ==
  StepV("l51", "l53", [frameV EXCEPT !.some_value = Some(43)], printedV)

\* lines 53-55: if let Some(x) = some_value
IfLetSome ==
  StepV("l53", "done", frameV,
        IF frameV.some_value.some
        THEN Append(printedV, Printed(54, <<frameV.some_value.val[1]>>))
        ELSE printedV)

NextV ==
  \/ PrintHello \/ Destructure \/ PrintAB \/ LetNumber \/ MatchNumberStep
  \/ LetMessage \/ MatchMessageStep \/ LetQuit \/ MatchQuitStep
  \/ LetColor \/ IfLetBlue \/ LetSome \/ IfLetSome

\* ------------------------------------------- drivers of the functions
\* the characters the texts are drawn from: a, b, e-acute (2 bytes),
\* the euro sign (3 bytes)
Alphabet == {97, 98, 233, 8364}

\* the texts longest_name is called with: every text of at most MaxChars
\* characters, and the programs' own arguments
Texts ==
  UNION {[1..n -> Alphabet] : n \in 0..MaxChars}
    \cup {LitAnil, LitGarima, LitAnilc}

\* the sequences get is called on: sequences of two element values, and
\* the fruits array
FruitsValue == [i \in DOMAIN FruitLits |-> Encode(FruitLits[i])]
GetSeqs ==
  UNION {[1..n -> {Encode(LitApple), Encode(LitBanana)}] : n \in 0..MaxN}
    \cup {FruitsValue}

\* the indices get is called with (usize, so never negative): the small
\* ones, the program's 20, and a very large one
GetIndices == 0..MaxIdx \cup {20, I32Max}

\* the values of an i32 field
I32Samples == {-I32Max - 1, -1, 0, 2, 3, I32Max}

Messages == {Quit} \cup {Move(x, y) : x, y \in I32Samples}

NoCall == [fn |-> "none", st |-> "idle"]

\* the caller owns two texts and borrows each whole
SetUpLongestName ==
  /\ call.fn = "none"
  /\ \E A, B \in Texts :
       LET h == StringFrom(StringFrom(heap, "first", A), "second", B)
       IN /\ heap' = h
          /\ call' = [fn |-> "longest_name", st |-> "called",
                      first |-> Whole(h, "first"),
                      second |-> Whole(h, "second"),
                      ret |-> NoView]
  /\ UNCHANGED <<pcD, frameD, printedD, varsV>>

\* the call of longest_name returns
InvokeLongestName ==
  /\ call.fn = "longest_name"
  /\ call.st = "called"
  /\ call' = [call EXCEPT !.st = "returned",
                          !.ret = longest_name(call.first, call.second)]
  /\ UNCHANGED <<varsD, varsV>>

\* the texts of the paired calls
PairTexts ==
  UNION {[1..n -> Alphabet] : n \in 0..MaxPairChars}
    \cup {LitAnil, LitGarima, LitAnilc}

\* two callers, whose texts have pairwise the same lengths
SetUpPair ==
  /\ call.fn = "none"
  /\ \E A, B, A2, B2 \in PairTexts :
       /\ Len(Encode(A)) = Len(Encode(A2))
       /\ Len(Encode(B)) = Len(Encode(B2))
       /\ LET h == StringFrom(StringFrom(StringFrom(StringFrom(heap,
                      "first", A), "second", B), "first2", A2), "second2", B2)
          IN /\ heap' = h
             /\ call' = [fn |-> "pair", st |-> "called",
                         first |-> Whole(h, "first"),
                         second |-> Whole(h, "second"),
                         first2 |-> Whole(h, "first2"),
                         second2 |-> Whole(h, "second2"),
                         ret |-> NoView, ret2 |-> NoView]
  /\ UNCHANGED <<pcD, frameD, printedD, varsV>>

\* both calls return
InvokePair ==
  /\ call.fn = "pair"
  /\ call.st = "called"
  /\ call' = [call EXCEPT !.st = "returned",
                          !.ret = longest_name(call.first, call.second),
                          !.ret2 = longest_name(call.first2, call.second2)]
  /\ UNCHANGED <<varsD, varsV>>

\* a call of get on a sequence
CallGet ==
  /\ call.fn = "none"
  /\ \E s \in GetSeqs, index \in GetIndices :
       call' = [fn |-> "get", st |-> "returned", s |-> s, index |-> index,
                ret |-> get(s, index)]
  /\ UNCHANGED <<varsD, varsV>>

\* a match on a Message value
CallMatch ==
  /\ call.fn = "none"
  /\ \E m \in Messages :
       call' = [fn |-> "match", st |-> "returned", message |-> m,
                ret |-> MatchMessage(m)]
  /\ UNCHANGED <<varsD, varsV>>

NextFn ==
  \/ SetUpLongestName \/ InvokeLongestName \/ SetUpPair \/ InvokePair
  \/ CallGet \/ CallMatch

\* ------------------------------------------------------ specifications
Init ==
  /\ pcD = "l4"
  /\ heap = InitHeap
  /\ frameD = FrameD0
  /\ printedD = <<>>
  /\ pcV = "l2"
  /\ frameV = FrameV0
  /\ printedV = <<>>
  /\ call = NoCall

\* the two programs, run independently of one another
NextMain == NextD \/ NextV

Next == NextMain \/ NextFn

\* the two programs
SpecMain == Init /\ [][NextMain]_vars

\* the programs run to their end: a process that can step does step
FairMain == SpecMain /\ WF_vars(NextD) /\ WF_vars(NextV)

\* the functions, each called once on drawn arguments
SpecFn == Init /\ [][NextFn]_vars

Spec == Init /\ [][Next]_vars

\* ------------------------------------------------------------ properties
Returned(fn) == call.fn = fn /\ call.st = "returned"

\* the bytes of the caller's two texts
FirstBytes == heap["first"].bytes
SecondBytes == heap["second"].bytes

\* C1: when one text is longer than the other, longest_name returns the
\* longer one whichever argument it is; ("anil", "garima") gives "garima"
C1_LongerWins ==
  Returned("longest_name") =>
    /\ Len(FirstBytes) > Len(SecondBytes) => call.ret = call.first
    /\ Len(SecondBytes) > Len(FirstBytes) => call.ret = call.second
    /\ (FirstBytes = Encode(LitAnil) /\ SecondBytes = Encode(LitGarima))
         => Deref(call.ret) = Encode(LitGarima)

C1_Witness ==
  /\ Returned("longest_name")
  /\ FirstBytes = Encode(LitAnil)
  /\ SecondBytes = Encode(LitGarima)
  /\ call.ret.buf = "second"

\* C2: when the two texts have the same length, zero included,
\* longest_name returns the second argument itself
C2_TieSecond ==
  Returned("longest_name") =>
    (Len(FirstBytes) = Len(SecondBytes) =>
       call.ret = call.second /\ call.ret.buf = "second")

C2_Witness ==
  /\ Returned("longest_name")
  /\ FirstBytes = <<>>
  /\ SecondBytes = <<>>
  /\ call.ret.buf = "second"

\* C3: get(i) on a sequence of length N is present, holding the element at
\* position i, exactly when i < N, and absent otherwise; on fruits index 1
\* is present("banana") and index 20 is absent
C3_GetPresentIff ==
  Returned("get") =>
    /\ call.ret.some <=> (0 <= call.index /\ call.index < Len(call.s))
    /\ call.ret.some => call.ret.val = <<call.s[call.index + 1]>>
    /\ ~call.ret.some => call.ret = None
    /\ (call.s = FruitsValue /\ call.index = 1)
         => call.ret = Some(Encode(LitBanana))
    /\ (call.s = FruitsValue /\ call.index = 20) => call.ret = None

C3_Witness ==
  /\ Returned("get")
  /\ call.s = FruitsValue
  /\ call.index = 1
  /\ call.ret = Some(Encode(LitBanana))

\* C4: a match on a Message runs exactly one handler, that of the value's
\* own alternative, with the fields it was built with: Quit runs Quit only,
\* Move {x: 2, y: 3} runs Move only with x = 2 and y = 3
C4_OneHandler ==
  Returned("match") =>
    /\ Len(call.ret) = 1
    /\ call.ret[1].handler = call.message.tag
    /\ call.message.tag = "Quit" => call.ret[1].args = <<>>
    /\ call.message.tag = "Move"
         => call.ret[1].args = <<call.message.x, call.message.y>>
    /\ call.message = Move(2, 3)
         => call.ret = <<[handler |-> "Move", args |-> <<2, 3>>]>>

C4_Witness ==
  /\ Returned("match")
  /\ call.message = Move(2, 3)
  /\ call.ret = <<[handler |-> "Move", args |-> <<2, 3>>]>>

\* the values the statement at a line has printed
PrintedAt(line) ==
  {printedD[i].args : i \in {j \in DOMAIN printedD : printedD[j].line = line}}

\* C5: wherever DataTypes main reads a borrowed view (lines 50, 65, 88,
\* 100) the view's buffer is alive and unmutated since the borrow; result2,
\* assigned inside the inner block, is read after it with first_name and
\* second_name both alive, and is "anilc"
C5_ViewsValidWhenRead ==
  /\ pcD = "l50" => Valid(frameD.string_slice)
  /\ pcD = "l65" => Valid(frameD._first)
  /\ pcD = "l88" => Valid(frameD.result)
  /\ pcD = "l100" =>
       /\ Valid(frameD.result2)
       /\ heap["first_name"].state = "live"
       /\ heap["second_name"].state = "live"
       /\ frameD.result2.buf = "second_name"
       /\ Deref(frameD.result2) = Encode(LitAnilc)
  /\ PrintedAt(100) \subseteq {<<Encode(LitAnilc)>>}

C5_Witness ==
  /\ pcD = "l103"
  /\ PrintedAt(100) = {<<Encode(LitAnilc)>>}
  /\ PrintedAt(50) # {}
  /\ PrintedAt(65) # {}
  /\ PrintedAt(88) # {}

\* C6: a call of longest_name always returns; what it returns is one of
\* its two arguments, unaltered; and the texts are the same after the call
\* as before it
C6_TotalAndPure ==
  /\ []((call.fn = "longest_name" /\ call.st = "called")
          => ENABLED InvokeLongestName)
  /\ [][(call.fn = "longest_name" /\ call.st = "called"
           /\ call'.st = "returned")
          => /\ call'.ret \in {call.first, call.second}
             /\ heap' = heap
             /\ call'.first = call.first
             /\ call'.second = call.second]_vars

C6_Witness ==
  /\ Returned("longest_name")
  /\ FirstBytes = <<>>
  /\ SecondBytes # <<>>
  /\ call.ret = call.second

\* C7: both programs run to their end and neither ever panics (assert_eq
\* at line 22, the slice 2..5, the indexings [9] and [0], the matches)
C7_RunToEnd ==
  /\ [](pcD # "abort" /\ pcV # "abort")
  /\ <>(pcD = "done" /\ pcV = "done")

C7_Witness ==
  /\ pcD = "done"
  /\ pcV = "done"
  /\ Len(printedD) = 11
  /\ Len(printedV) = 7

\* C8: the appends change owned_string in place and concatenate in call
\* order: "Hello ", then "Hello world", then "Hello world!", which is what
\* the assert_eq compares; the view [2..5] taken afterwards is "llo"
C8_AppendsInOrder ==
  LET o == heap["owned_string"]
  IN /\ pcD = "l17" => o = Buf("live", Encode(LitHello), 0)
     /\ pcD = "l18" => o = Buf("live", Encode(LitHello \o LitWorld), 1)
     /\ pcD \in {"l20", "l22", "l49", "l50"}
          => o = Buf("live", Encode(LitHelloWorld), 2)
     /\ pcD = "l50" =>
          /\ frameD.string_slice.buf = "owned_string"
          /\ Deref(frameD.string_slice) = Encode(LitLlo)
     /\ PrintedAt(50) \subseteq {<<Encode(LitLlo)>>}

C8_Witness ==
  /\ pcD = "l53"
  /\ heap["owned_string"].bytes = Encode(LitHelloWorld)
  /\ PrintedAt(50) = {<<Encode(LitLlo)>>}

\* the argument position a call returned
Position(ret, first, second) ==
  IF ret = first THEN "first" ELSE IF ret = second THEN "second" ELSE "new"

\* C9: two calls whose texts have pairwise the same lengths return the same
\* argument position, whatever the texts contain
C9_LengthOnly ==
  Returned("pair") =>
    Position(call.ret, call.first, call.second)
      = Position(call.ret2, call.first2, call.second2)

C9_Witness ==
  /\ Returned("pair")
  /\ heap["first"].bytes = <<98>>
  /\ heap["second"].bytes = <<97>>
  /\ heap["first2"].bytes = <<97>>
  /\ heap["second2"].bytes = <<98>>
  /\ call.ret = call.second
  /\ call.ret2 = call.second2

IsAscii(bytes) == \A i \in DOMAIN bytes : bytes[i] < 128

\* C10: longest_name compares UTF-8 byte lengths: on ASCII texts it agrees
\* with comparing character counts, and when first has fewer characters
\* but more bytes than second it returns first
C10_ByteLength ==
  Returned("longest_name") =>
    /\ call.ret = call.first <=> Len(FirstBytes) > Len(SecondBytes)
    /\ (IsAscii(FirstBytes) /\ IsAscii(SecondBytes)) =>
         (call.ret = call.first
            <=> CharCount(FirstBytes) > CharCount(SecondBytes))
    /\ (/\ CharCount(FirstBytes) < CharCount(SecondBytes)
        /\ Len(FirstBytes) > Len(SecondBytes)) => call.ret = call.first

C10_Witness ==
  /\ Returned("longest_name")
  /\ FirstBytes = Encode(<<8364>>)
  /\ SecondBytes = Encode(<<97, 98>>)
  /\ call.ret = call.first

====
